---- MODULE Spec2Model ----
(***************************************************************************)
(* A model of futures_mutex::unsync::Mutex (src/src/unsync.rs): a          *)
(* single-threaded, poisoning, future-aware mutex.  One Mutex is shared by *)
(* NumTasks cooperative tasks that run on one thread.  Every method of the *)
(* Mutex runs to completion before any other task's code runs, so each     *)
(* method call is one atomic action.                                       *)
(***************************************************************************)
EXTENDS Integers, Sequences, FiniteSets, TLC

VARIABLES
    mutex,      \* the Mutex<T>: [locked, poisoned, waiters, data]
    guards,     \* the live MutexGuards: a sequence of [owner, guard]
    panicking,  \* thread::panicking() of the one thread that runs all tasks
    panicker,   \* the task whose code is unwinding (0 when none)
    pc,         \* per task: "idle", "waiting" (its lock() future is Pending), "holding"
    notified,   \* per task: wake() was called on its LocalWaker and its pending lock()
                \* future was not polled since
    wakeLog,    \* the wake() calls made by the most recent step, in call order
    ret,        \* the most recent call: [op, task, result, again (a poll of a future polled before)]
    bornFailing,\* per task: it holds a guard that was created while the task was unwinding
    failedHeld, \* per task: it holds a guard and a panic of the task began since it took it
    acqs,       \* number of guards taken so far (counted by LiveSpec only)
    hist,       \* history: [value (the value given to new, then the value last
                \* written through a guard), written (a guard was written through),
                \* fresh (no write was made through the guard now live), everLocked]
    resources,  \* the philosopher example: its Mutexes, by index (empty when not run)
    phils       \* the philosopher example: per task [pc, iter, notified, locks]

vars == <<mutex, guards, panicking, panicker, pc, notified, wakeLog, ret,
          bornFailing, failedHeld, acqs, hist, resources, phils>>

(* The state of the philosopher example, which the one-Mutex steps never touch. *)
example == <<resources, phils>>

(* Bounds of the model. *)
NumTasks == 3
MaxValue == 1
MaxWaiters == 2
MaxAcquire == 3

Tasks == 1..NumTasks
Values == 0..MaxValue
NoTask == 0

Range(s) == {s[i] : i \in 1..Len(s)}

RemoveAt(s, i) == SubSeq(s, 1, i - 1) \o SubSeq(s, i + 1, Len(s))

(* Mutex::new that stores T::default() instead of the value it is given. *)
MutexNew_default(inner) ==
    [locked |-> FALSE, poisoned |-> FALSE, waiters |-> <<>>, data |-> 0]

(***************************************************************************)
(* Mutex::new: unlocked, unpoisoned, no waiters, the given value.          *)
(***************************************************************************)
MutexNew(inner) ==
    [locked |-> FALSE, poisoned |-> FALSE, waiters |-> <<>>, data |-> inner]

(* MutexGuard::new that does not set the lock bit. *)
MutexGuardNew_unset(m, pk) ==
    [mutex |-> m, guard |-> [is_panicking |-> pk]]

(* MutexGuard::new that forgets to capture thread::panicking(). *)
MutexGuardNew_uncaptured(m, pk) ==
    [mutex |-> [m EXCEPT !.locked = TRUE],
     guard |-> [is_panicking |-> FALSE]]

(***************************************************************************)
(* MutexGuard::new: sets the lock bit and captures thread::panicking().    *)
(* It does not look at the lock bit: the callers do.                       *)
(***************************************************************************)
MutexGuardNew(m, pk) ==
    [mutex |-> [m EXCEPT !.locked = TRUE],
     guard |-> [is_panicking |-> pk]]

(* try_lock without the test of the lock bit. *)
try_lock_unchecked(m, pk) ==
    [mutex |-> [m EXCEPT !.locked = TRUE],
     made |-> <<[is_panicking |-> pk]>>,
     result |-> IF m.poisoned THEN "Poisoned" ELSE "Ok"]

(* try_lock that tests the poison flag before the lock bit. *)
try_lock_poison_first(m, pk) ==
    IF m.poisoned /\ m.locked
    THEN [mutex |-> m, made |-> <<>>, result |-> "Poisoned"]
    ELSE IF m.locked
    THEN [mutex |-> m, made |-> <<>>, result |-> "WouldBlock"]
    ELSE [mutex |-> [m EXCEPT !.locked = TRUE],
          made |-> <<[is_panicking |-> pk]>>,
          result |-> IF m.poisoned THEN "Poisoned" ELSE "Ok"]

(* try_lock that refuses a poisoned Mutex instead of handing the guard over. *)
try_lock_denying(m, pk) ==
    IF m.locked \/ m.poisoned
    THEN [mutex |-> m, made |-> <<>>,
          result |-> IF m.locked THEN "WouldBlock" ELSE "Poisoned"]
    ELSE [mutex |-> [m EXCEPT !.locked = TRUE],
          made |-> <<[is_panicking |-> pk]>>,
          result |-> "Ok"]

(***************************************************************************)
(* Mutex::try_lock.  The result carries the new Mutex state, the guards    *)
(* produced (none or one) and the variant of TryLockResult returned.       *)
(***************************************************************************)
try_lock(m, pk) ==
    IF m.locked
    THEN [mutex |-> m, made |-> <<>>, result |-> "WouldBlock"]
    ELSE LET g == MutexGuardNew(m, pk)
         IN  [mutex |-> g.mutex,
              made |-> <<g.guard>>,
              result |-> IF g.mutex.poisoned THEN "Poisoned" ELSE "Ok"]

(* poll_lock that registers the waker before it looks at the lock bit. *)
poll_lock_registers_first(m, lw, pk) ==
    LET m0 == [m EXCEPT !.waiters = Append(m.waiters, lw)]
    IN  IF m.locked
        THEN [mutex |-> m0, made |-> <<>>, poll |-> "Pending", result |-> "none"]
        ELSE [mutex |-> [m0 EXCEPT !.locked = TRUE],
              made |-> <<[is_panicking |-> pk]>>,
              poll |-> "Ready",
              result |-> IF m.poisoned THEN "Poisoned" ELSE "Ok"]

(* poll_lock that does not push a waker that is already queued. *)
poll_lock_dedup(m, lw, pk) ==
    IF m.locked
    THEN [mutex |-> IF \E i \in 1..Len(m.waiters) : m.waiters[i] = lw
                    THEN m
                    ELSE [m EXCEPT !.waiters = Append(m.waiters, lw)],
          made |-> <<>>, poll |-> "Pending", result |-> "none"]
    ELSE [mutex |-> [m EXCEPT !.locked = TRUE],
          made |-> <<[is_panicking |-> pk]>>,
          poll |-> "Ready",
          result |-> IF m.poisoned THEN "Poisoned" ELSE "Ok"]

(* poll_lock that returns Pending without registering the waker. *)
poll_lock_unregistered(m, lw, pk) ==
    IF m.locked
    THEN [mutex |-> m, made |-> <<>>, poll |-> "Pending", result |-> "none"]
    ELSE [mutex |-> [m EXCEPT !.locked = TRUE],
          made |-> <<[is_panicking |-> pk]>>,
          poll |-> "Ready",
          result |-> IF m.poisoned THEN "Poisoned" ELSE "Ok"]

(***************************************************************************)
(* Mutex::poll_lock with the LocalWaker lw of the polling task.            *)
(***************************************************************************)
poll_lock(m, lw, pk) ==
    IF m.locked
    THEN LET taken == m.waiters
             pushed == Append(taken, lw)
         IN  [mutex |-> [m EXCEPT !.waiters = pushed],
              made |-> <<>>, poll |-> "Pending", result |-> "none"]
    ELSE LET g == MutexGuardNew(m, pk)
         IN  [mutex |-> g.mutex,
              made |-> <<g.guard>>,
              poll |-> "Ready",
              result |-> IF g.mutex.poisoned THEN "Poisoned" ELSE "Ok"]

(* MutexAcquire::poll forwards to poll_lock of its mutex. *)
MutexAcquirePoll(m, lw, pk) == poll_lock(m, lw, pk)

(* Mutex::is_poisoned *)
is_poisoned(m) == m.poisoned

(* into_inner that drops the poison flag on the floor. *)
into_inner_swallow(m) == [variant |-> "Ok", payload |-> m.data]

(***************************************************************************)
(* Mutex::into_inner: the value, inside a PoisonError when poisoned.       *)
(***************************************************************************)
into_inner(m) ==
    LET poisoned == m.poisoned
        inner == m.data
    IN  IF poisoned
        THEN [variant |-> "Poisoned", payload |-> inner]
        ELSE [variant |-> "Ok", payload |-> inner]

(***************************************************************************)
(* Mutex::get_mut: the reference to the value (modelled by the value it    *)
(* points to), inside a PoisonError when poisoned.                         *)
(***************************************************************************)
get_mut(m) ==
    LET inner == m.data
    IN  IF m.poisoned
        THEN [variant |-> "Poisoned", payload |-> inner]
        ELSE [variant |-> "Ok", payload |-> inner]

(* Deref for MutexGuard: the guard reads the data of its Mutex. *)
deref(m) == m.data

(* A guard that works on a copy of the value: what is written is lost. *)
deref_mut_copy(m, v) == m

(* DerefMut for MutexGuard: v is written to the data of the Mutex. *)
deref_mut(m, v) == [m EXCEPT !.data = v]

(* A destructor of MutexAcquire that takes every waker out of the queue. *)
MutexAcquireDrop_clears(m, lw) == [m EXCEPT !.waiters = <<>>]

(***************************************************************************)
(* Dropping a MutexAcquire.  The struct holds a reference to the Mutex and *)
(* has no Drop implementation: the Mutex is not touched, a waker the       *)
(* future registered stays where it is.                                    *)
(***************************************************************************)
MutexAcquireDrop(m, lw) == m

(* A drain loop that removes every entry but does not wake the last one. *)
Drain_skips_last(q, woken) ==
    IF q = <<>>
    THEN [woken |-> woken, rest |-> q]
    ELSE [woken |-> SubSeq(q, 1, Len(q) - 1), rest |-> <<>>]

(* A drain loop that wakes the first waiter only and keeps the others. *)
Drain_first_only(q, woken) ==
    IF q = <<>>
    THEN [woken |-> woken, rest |-> q]
    ELSE [woken |-> Append(woken, Head(q)), rest |-> Tail(q)]

(***************************************************************************)
(* The loop of MutexGuard::drop: waiters.drain(..) takes the entries front *)
(* to back and calls wake() on each.  woken is the list of wake() calls    *)
(* made, rest is what is left in the vector.                               *)
(***************************************************************************)
RECURSIVE Drain(_, _)
Drain(q, woken) ==
    IF q = <<>>
    THEN [woken |-> woken, rest |-> q]
    ELSE Drain(Tail(q), Append(woken, Head(q)))

(* A drop that wakes every waiter but leaves the entries in the queue. *)
GuardDrop_no_drain(m, g, pk) ==
    [mutex |-> [m EXCEPT !.locked = FALSE,
                         !.poisoned = m.poisoned \/ (~g.is_panicking /\ pk)],
     woken |-> m.waiters,
     atWake |-> [locked |-> FALSE,
                 poisoned |-> m.poisoned \/ (~g.is_panicking /\ pk)]]

(* A drop that assigns the poison flag instead of only ever setting it. *)
GuardDrop_assigns(m, g, pk) ==
    [mutex |-> [m EXCEPT !.locked = FALSE,
                         !.poisoned = ~g.is_panicking /\ pk,
                         !.waiters = <<>>],
     woken |-> m.waiters,
     atWake |-> [locked |-> FALSE, poisoned |-> ~g.is_panicking /\ pk]]

(* A drop that empties the waiter queue without calling wake(). *)
GuardDrop_no_wake(m, g, pk) ==
    [mutex |-> [m EXCEPT !.locked = FALSE,
                         !.poisoned = m.poisoned \/ (~g.is_panicking /\ pk),
                         !.waiters = <<>>],
     woken |-> <<>>,
     atWake |-> [locked |-> FALSE,
                 poisoned |-> m.poisoned \/ (~g.is_panicking /\ pk)]]

(* A drop that hands the lock to the first waiter: it wakes that one and   *)
(* leaves the lock bit set for it.                                         *)
GuardDrop_handoff(m, g, pk) ==
    LET p == m.poisoned \/ (~g.is_panicking /\ pk)
    IN  IF m.waiters = <<>>
        THEN [mutex |-> [m EXCEPT !.locked = FALSE, !.poisoned = p],
              woken |-> <<>>,
              atWake |-> [locked |-> FALSE, poisoned |-> p]]
        ELSE [mutex |-> [m EXCEPT !.poisoned = p, !.waiters = Tail(m.waiters)],
              woken |-> <<Head(m.waiters)>>,
              atWake |-> [locked |-> TRUE, poisoned |-> p]]

(* A drop that wakes the waiters first and sets the poison flag after. *)
GuardDrop_wake_first(m, g, pk) ==
    [mutex |-> [m EXCEPT !.locked = FALSE,
                         !.poisoned = m.poisoned \/ (~g.is_panicking /\ pk),
                         !.waiters = <<>>],
     woken |-> m.waiters,
     atWake |-> [locked |-> FALSE, poisoned |-> m.poisoned]]

(***************************************************************************)
(* MutexGuard::drop of guard g while thread::panicking() = pk.  atWake is  *)
(* what the lock bit and the poison flag are when the wake() calls are     *)
(* made.                                                                   *)
(***************************************************************************)
GuardDrop(m, g, pk) ==
    LET m1 == [m EXCEPT !.locked = FALSE]
        m2 == IF ~g.is_panicking /\ pk
              THEN [m1 EXCEPT !.poisoned = TRUE]
              ELSE m1
        d  == Drain(m2.waiters, <<>>)
    IN  [mutex |-> [m2 EXCEPT !.waiters = d.rest],
         woken |-> d.woken,
         atWake |-> [locked |-> m2.locked, poisoned |-> m2.poisoned]]

(* LocalWaker::wake for every call in the list: the scheduler is told to   *)
(* poll those tasks again.  Polling a task that awaits no lock() future    *)
(* polls nothing of this Mutex, so a wake-up counts for waiting tasks only. *)
Wake(n, woken) == [t \in Tasks |-> n[t] \/ t \in Range(woken)]

(***************************************************************************)
(* The state machine.                                                      *)
(***************************************************************************)
Init ==
    /\ \E x \in Values :
          /\ mutex = MutexNew(x)
          /\ hist = [value |-> x, written |-> FALSE, fresh |-> TRUE,
                     everLocked |-> FALSE]
    /\ guards = <<>>
    /\ panicking = FALSE
    /\ panicker = NoTask
    /\ pc = [t \in Tasks |-> "idle"]
    /\ notified = [t \in Tasks |-> FALSE]
    /\ wakeLog = <<>>
    /\ ret = [op |-> "new", task |-> NoTask, result |-> "none", again |-> FALSE]
    /\ bornFailing = [t \in Tasks |-> FALSE]
    /\ failedHeld = [t \in Tasks |-> FALSE]
    /\ acqs = 0
    /\ resources = <<>>
    /\ phils = <<>>

(* Task t's code may run: no unwinding is in progress, or t is the task    *)
(* that unwinds (its destructors run).                                     *)
MayRun(t) == ~panicking \/ panicker = t

Failing(t) == panicking /\ panicker = t

Holds(t) == \E i \in 1..Len(guards) : guards[i].owner = t

Own(t, made) == [i \in 1..Len(made) |-> [owner |-> t, guard |-> made[i]]]

(* Task t calls try_lock while it runs (not suspended in an await). *)
TryLockStep(t) ==
    /\ MayRun(t)
    /\ pc[t] # "waiting"
    /\ LET r == try_lock(mutex, panicking)
       IN  /\ mutex' = r.mutex
           /\ guards' = guards \o Own(t, r.made)
           /\ ret' = [op |-> "try_lock", task |-> t, result |-> r.result, again |-> FALSE]
           /\ IF r.made # <<>>
              THEN /\ pc' = [pc EXCEPT ![t] = "holding"]
                   /\ bornFailing' = [bornFailing EXCEPT ![t] = Failing(t)]
                   /\ failedHeld' = [failedHeld EXCEPT ![t] = FALSE]
              ELSE UNCHANGED <<pc, bornFailing, failedHeld>>
    /\ wakeLog' = <<>>
    /\ UNCHANGED <<panicking, panicker, notified>>
    /\ UNCHANGED example

(* The scheduler polls the MutexAcquire future of task t. *)
PollStep(t) ==
    /\ ~panicking
    /\ LET r == MutexAcquirePoll(mutex, t, panicking)
       IN  /\ mutex' = r.mutex
           /\ guards' = guards \o Own(t, r.made)
           /\ ret' = [op |-> "poll_lock", task |-> t,
                      result |-> IF r.poll = "Pending" THEN "Pending" ELSE r.result,
                      again |-> pc[t] = "waiting"]
           /\ notified' = [notified EXCEPT ![t] = FALSE]
           /\ IF r.made # <<>>
              THEN /\ pc' = [pc EXCEPT ![t] = "holding"]
                   /\ bornFailing' = [bornFailing EXCEPT ![t] = Failing(t)]
                   /\ failedHeld' = [failedHeld EXCEPT ![t] = FALSE]
              ELSE /\ pc' = [pc EXCEPT ![t] = "waiting"]
                   /\ UNCHANGED <<bornFailing, failedHeld>>
    /\ wakeLog' = <<>>
    /\ UNCHANGED <<panicking, panicker>>
    /\ UNCHANGED example

(* Task t awaits mutex.lock(): the first poll of a new MutexAcquire. *)
AwaitStep(t) == pc[t] = "idle" /\ PollStep(t)

(* The scheduler polls a task again after wake() was called for it. *)
RepollStep(t) == pc[t] = "waiting" /\ notified[t] /\ PollStep(t)

(* The scheduler polls a suspended task that nobody woke (a spurious poll). *)
SpuriousStep(t) ==
    /\ pc[t] = "waiting"
    /\ ~notified[t]
    /\ Len(mutex.waiters) < MaxWaiters
    /\ PollStep(t)

(* Task t gives up a lock() future that returned Pending: the future is    *)
(* dropped and the task runs on without the lock.  The stale wakers this   *)
(* leaves make the queue grow without limit: MaxWaiters caps it.           *)
AbandonStep(t) ==
    /\ ~panicking
    /\ pc[t] = "waiting"
    /\ Len(mutex.waiters) < MaxWaiters
    /\ mutex' = MutexAcquireDrop(mutex, t)
    /\ pc' = [pc EXCEPT ![t] = "idle"]
    /\ notified' = [notified EXCEPT ![t] = FALSE]
    /\ ret' = [op |-> "abandon", task |-> t, result |-> "none", again |-> FALSE]
    /\ wakeLog' = <<>>
    /\ UNCHANGED <<guards, panicking, panicker, bornFailing, failedHeld>>
    /\ UNCHANGED example

(* Task t drops a guard it owns (explicitly, at scope end or by unwinding). *)
DropStep(t) ==
    /\ MayRun(t)
    /\ \E i \in 1..Len(guards) :
          /\ guards[i].owner = t
          /\ LET r == GuardDrop(mutex, guards[i].guard, panicking)
                 left == RemoveAt(guards, i)
             IN  /\ mutex' = r.mutex
                 /\ guards' = left
                 /\ wakeLog' = r.woken
                 /\ notified' = [u \in Tasks |->
                                    Wake(notified, r.woken)[u] /\ pc[u] = "waiting"]
                 /\ pc' = [pc EXCEPT ![t] =
                              IF \E j \in 1..Len(left) : left[j].owner = t
                              THEN "holding" ELSE "idle"]
                 /\ ret' = [op |-> "drop", task |-> t, result |-> "none",
                            again |-> FALSE, atWake |-> r.atWake]
    /\ bornFailing' = [bornFailing EXCEPT ![t] = FALSE]
    /\ failedHeld' = [failedHeld EXCEPT ![t] = FALSE]
    /\ UNCHANGED <<panicking, panicker>>
    /\ UNCHANGED example

(* Task t calls is_poisoned. *)
IsPoisonedStep(t) ==
    /\ MayRun(t)
    /\ pc[t] # "waiting"
    /\ ret' = [op |-> "is_poisoned", task |-> t,
               result |-> IF is_poisoned(mutex) THEN "true" ELSE "false",
               again |-> FALSE]
    /\ wakeLog' = <<>>
    /\ UNCHANGED <<mutex, guards, panicking, panicker, pc, notified,
                   bornFailing, failedHeld>>
    /\ UNCHANGED example

(* The guard owner writes v through DerefMut. *)
WriteStep(t, v) ==
    /\ MayRun(t)
    /\ Holds(t)
    /\ mutex' = deref_mut(mutex, v)
    /\ ret' = [op |-> "write", task |-> t, result |-> "none", again |-> FALSE]
    /\ wakeLog' = <<>>
    /\ UNCHANGED <<guards, panicking, panicker, pc, notified,
                   bornFailing, failedHeld>>
    /\ UNCHANGED example

(* The guard owner reads the value through Deref. *)
ReadStep(t) ==
    /\ MayRun(t)
    /\ Holds(t)
    /\ ret' = [op |-> "read", task |-> t, result |-> "none", again |-> FALSE,
               val |-> deref(mutex)]
    /\ wakeLog' = <<>>
    /\ UNCHANGED <<mutex, guards, panicking, panicker, pc, notified,
                   bornFailing, failedHeld>>
    /\ UNCHANGED example

(* Nothing borrows the Mutex: no guard is live and no lock() future exists. *)
Unborrowed == guards = <<>> /\ \A t \in Tasks : pc[t] = "idle"

(* The owner of the Mutex calls get_mut on its exclusive reference. *)
GetMutStep ==
    /\ ~panicking
    /\ Unborrowed
    /\ LET r == get_mut(mutex)
       IN  ret' = [op |-> "get_mut", task |-> NoTask, result |-> r.variant,
                   again |-> FALSE, val |-> r.payload]
    /\ wakeLog' = <<>>
    /\ UNCHANGED <<mutex, guards, panicking, panicker, pc, notified,
                   bornFailing, failedHeld>>
    /\ UNCHANGED example

(* The owner of the Mutex consumes it with into_inner.  The fields are     *)
(* moved out; mutex keeps what they held.  Nothing can be called after.    *)
IntoInnerStep ==
    /\ ~panicking
    /\ Unborrowed
    /\ LET r == into_inner(mutex)
       IN  ret' = [op |-> "into_inner", task |-> NoTask, result |-> r.variant,
                   again |-> FALSE, val |-> r.payload]
    /\ wakeLog' = <<>>
    /\ UNCHANGED <<mutex, guards, panicking, panicker, pc, notified,
                   bornFailing, failedHeld>>
    /\ UNCHANGED example

(* The Mutex was not consumed. *)
Alive == ret.op # "into_inner"

(* The code of the running task t panics: the thread starts to unwind. *)
PanicStep(t) ==
    /\ ~panicking
    /\ pc[t] # "waiting"
    /\ panicking' = TRUE
    /\ panicker' = t
    /\ failedHeld' = [failedHeld EXCEPT ![t] = Holds(t)]
    /\ ret' = [op |-> "panic", task |-> t, result |-> "none", again |-> FALSE]
    /\ wakeLog' = <<>>
    /\ UNCHANGED <<mutex, guards, pc, notified, bornFailing>>
    /\ UNCHANGED example

(* The unwinding of task t has destroyed the task's frames, its guards     *)
(* with them, and is caught by the scheduler.                              *)
CaughtStep(t) ==
    /\ Failing(t)
    /\ ~Holds(t)
    /\ panicking' = FALSE
    /\ panicker' = NoTask
    /\ ret' = [op |-> "caught", task |-> t, result |-> "none", again |-> FALSE]
    /\ wakeLog' = <<>>
    /\ UNCHANGED <<mutex, guards, pc, notified, bornFailing, failedHeld>>
    /\ UNCHANGED example

(* The history kept along the steps. *)
Track == hist' = [hist EXCEPT !.everLocked = @ \/ mutex'.locked]

TryLock(t) == TryLockStep(t) /\ Track /\ UNCHANGED acqs
Await(t) == AwaitStep(t) /\ Track /\ UNCHANGED acqs
Repoll(t) == RepollStep(t) /\ Track /\ UNCHANGED acqs
Spurious(t) == SpuriousStep(t) /\ Track /\ UNCHANGED acqs
Drop(t) == DropStep(t) /\ hist' = [hist EXCEPT !.fresh = TRUE] /\ UNCHANGED acqs
IsPoisoned(t) == IsPoisonedStep(t) /\ UNCHANGED <<acqs, hist>>
Write(t, v) ==
    /\ WriteStep(t, v)
    /\ hist' = [hist EXCEPT !.value = v, !.written = TRUE, !.fresh = FALSE]
    /\ UNCHANGED acqs
Read(t) == ReadStep(t) /\ UNCHANGED <<acqs, hist>>
Panic(t) == PanicStep(t) /\ UNCHANGED <<acqs, hist>>
Caught(t) == CaughtStep(t) /\ UNCHANGED <<acqs, hist>>
Abandon(t) == AbandonStep(t) /\ UNCHANGED <<acqs, hist>>
GetMut == GetMutStep /\ UNCHANGED <<acqs, hist>>
IntoInner == IntoInnerStep /\ UNCHANGED <<acqs, hist>>

Next ==
    /\ Alive
    /\ \/ \E t \in Tasks :
             \/ TryLock(t)
             \/ Await(t)
             \/ Repoll(t)
             \/ Spurious(t)
             \/ Drop(t)
             \/ IsPoisoned(t)
             \/ \E v \in Values : Write(t, v)
             \/ Read(t)
             \/ Panic(t)
             \/ Caught(t)
             \/ Abandon(t)
       \/ GetMut
       \/ IntoInner

Spec == Init /\ [][Next]_vars

(***************************************************************************)
(* The specification of the liveness claims.  At most MaxAcquire guards   *)
(* are taken in all and a task panics only while it holds one, so no task  *)
(* acquires or fails for ever.  The fairness is what the claims assume of  *)
(* the tasks and of the scheduler: a guard that is held is dropped, a task *)
(* whose waker was woken is polled again, an unwinding is caught.          *)
(***************************************************************************)
Counted == acqs' = acqs + (Len(guards') - Len(guards))

(* A guard may still be asked for: the guards taken so far and the ones    *)
(* the suspended tasks wait for leave room under MaxAcquire.               *)
Budget == acqs + Cardinality({u \in Tasks : pc[u] = "waiting"}) < MaxAcquire

LiveTryLock(t) == Budget /\ TryLockStep(t) /\ Counted /\ UNCHANGED hist
LiveAwait(t) == Budget /\ AwaitStep(t) /\ Counted /\ UNCHANGED hist
LiveRepoll(t) == RepollStep(t) /\ Counted /\ UNCHANGED hist
LiveSpurious(t) == SpuriousStep(t) /\ Counted /\ UNCHANGED hist
LiveDrop(t) == DropStep(t) /\ UNCHANGED <<acqs, hist>>
LivePanic(t) == Holds(t) /\ PanicStep(t) /\ UNCHANGED <<acqs, hist>>
LiveCaught(t) == CaughtStep(t) /\ UNCHANGED <<acqs, hist>>

LiveNext ==
    \E t \in Tasks :
        \/ LiveTryLock(t)
        \/ LiveAwait(t)
        \/ LiveRepoll(t)
        \/ LiveSpurious(t)
        \/ LiveDrop(t)
        \/ LivePanic(t)
        \/ LiveCaught(t)

LiveInit == Init /\ mutex.data = 0

LiveSpec ==
    /\ LiveInit
    /\ [][LiveNext]_vars
    /\ \A t \in Tasks : WF_vars(LiveDrop(t))
    /\ \A t \in Tasks : WF_vars(LiveRepoll(t))
    /\ \A t \in Tasks : WF_vars(LiveCaught(t))

TypeOK ==
    /\ mutex.locked \in BOOLEAN
    /\ mutex.poisoned \in BOOLEAN
    /\ mutex.data \in Values
    /\ Range(mutex.waiters) \subseteq Tasks
    /\ panicking \in BOOLEAN
    /\ panicker \in Tasks \cup {NoTask}
    /\ pc \in [Tasks -> {"idle", "waiting", "holding"}]
    /\ notified \in [Tasks -> BOOLEAN]

(***************************************************************************)
(* The claims.                                                             *)
(***************************************************************************)
Acquire(r) == r.op \in {"try_lock", "poll_lock"}
Granted(r) == Acquire(r) /\ r.result \in {"Ok", "Poisoned"}

(* C1: mutual exclusion.  In every reachable state, whatever the           *)
(* interleaving of try_lock, poll_lock and guard drops and whether or not  *)
(* the Mutex is poisoned, at most one MutexGuard is live.                  *)
C1_MutualExclusion == Len(guards) <= 1

(* A guard is live on a poisoned Mutex and another task was just refused. *)
C1_Witness ==
    /\ Len(guards) = 1
    /\ mutex.poisoned
    /\ Acquire(ret)
    /\ ret.result \in {"WouldBlock", "Pending"}
    /\ ret.task # guards[1].owner

(* C2: try_lock on a held Mutex returns WouldBlock, also when the Mutex is *)
(* poisoned, produces no guard and changes nothing of the Mutex (locked,   *)
(* poisoned, waiters, data); calling it again on the state it leaves gives *)
(* the same result and the same state.                                     *)
C2_TryLockHeld ==
    /\ [](mutex.locked =>
            LET r == try_lock(mutex, panicking)
            IN  /\ r.result = "WouldBlock"
                /\ r.made = <<>>
                /\ r.mutex = mutex
                /\ try_lock(r.mutex, panicking) = r)
    /\ [][(ret'.op = "try_lock" /\ mutex.locked) =>
            /\ ret'.result = "WouldBlock"
            /\ mutex' = mutex
            /\ guards' = guards]_vars

(* try_lock was refused on a held, poisoned Mutex with a waiter queued. *)
C2_Witness ==
    /\ ret.op = "try_lock"
    /\ ret.result = "WouldBlock"
    /\ mutex.locked
    /\ mutex.poisoned
    /\ mutex.waiters # <<>>

(* C3: on an unlocked Mutex poll_lock does what try_lock does: from the    *)
(* same state both set locked, make one guard, wrap it in a poison error   *)
(* iff poisoned is set, and leave poisoned, the waiters and the data as    *)
(* they were; poll_lock reports Ready and registers no waker.              *)
C3_PollAsTry ==
    /\ [](~mutex.locked =>
            \A t \in Tasks :
                LET a == try_lock(mutex, panicking)
                    b == poll_lock(mutex, t, panicking)
                IN  /\ b.poll = "Ready"
                    /\ b.mutex = a.mutex
                    /\ b.made = a.made
                    /\ b.result = a.result
                    /\ Len(a.made) = 1
                    /\ a.mutex = [mutex EXCEPT !.locked = TRUE]
                    /\ (a.result = "Poisoned") = mutex.poisoned
                    /\ a.result \in {"Ok", "Poisoned"})
    /\ [][(Acquire(ret') /\ ~mutex.locked) =>
            /\ mutex' = [mutex EXCEPT !.locked = TRUE]
            /\ Len(guards') = Len(guards) + 1
            /\ ret'.result = (IF mutex.poisoned THEN "Poisoned" ELSE "Ok")]_vars

(* A poll of an unlocked, poisoned Mutex handed a guard to a task. *)
C3_Witness ==
    /\ ret.op = "poll_lock"
    /\ ret.result = "Poisoned"
    /\ Len(guards) = 1
    /\ guards[1].owner = ret.task
    /\ mutex.waiters = <<>>

(* C4: poll_lock on a held Mutex returns Pending, appends exactly one copy *)
(* of the caller's waker at the end of the waiter queue (also when the     *)
(* task is queued already) and leaves locked, poisoned, the data and the   *)
(* guards alone; poll_lock returns Pending only when the lock is held.     *)
C4_PollHeld ==
    [][/\ (ret'.op = "poll_lock" /\ mutex.locked) =>
            /\ ret'.result = "Pending"
            /\ mutex' = [mutex EXCEPT !.waiters = Append(mutex.waiters, ret'.task)]
            /\ guards' = guards
       /\ (ret'.op = "poll_lock" /\ ret'.result = "Pending") => mutex.locked]_vars

(* A task was polled again while queued: its waker is in the queue twice. *)
C4_Witness ==
    /\ ret.op = "poll_lock"
    /\ ret.result = "Pending"
    /\ \E i, j \in 1..Len(mutex.waiters) :
          i < j /\ mutex.waiters[i] = ret.task /\ mutex.waiters[j] = ret.task

(* C5: a guard drop clears locked, calls wake() once for every entry the   *)
(* waiter queue held when the drop began, in queue order, and leaves the   *)
(* queue empty.                                                            *)
C5_DropWakesAll ==
    [][ret'.op = "drop" =>
          /\ ~mutex'.locked
          /\ wakeLog' = mutex.waiters
          /\ mutex'.waiters = <<>>
          /\ \A t \in Range(mutex.waiters) : pc[t] = "waiting" => notified'[t]]_vars

(* A drop woke two different tasks. *)
C5_Witness ==
    /\ ret.op = "drop"
    /\ \E i, j \in 1..Len(wakeLog) : wakeLog[i] # wakeLog[j]
    /\ mutex.waiters = <<>>

C7_PoisonMonotone ==
    [][/\ mutex.poisoned => mutex'.poisoned
       /\ ret'.op = "is_poisoned" =>
            /\ ret'.result = (IF mutex.poisoned THEN "true" ELSE "false")
            /\ mutex' = mutex
            /\ guards' = guards
            /\ notified' = notified]_vars

(* A guard taken outside any unwinding was dropped cleanly on a poisoned Mutex. *)
C7_Witness ==
    /\ ret.op = "drop"
    /\ ~panicking
    /\ mutex.poisoned

(* C8: poisoning is advisory.  An acquire on a free Mutex always takes the *)
(* lock and hands over a guard; the guard is poison-wrapped iff the Mutex  *)
(* is poisoned.                                                            *)
C8_PoisonAdvisory ==
    [][Acquire(ret') =>
          /\ ~mutex.locked =>
                /\ mutex'.locked
                /\ Len(guards') = Len(guards) + 1
                /\ guards'[Len(guards')].owner = ret'.task
                /\ Granted(ret')
          /\ ret'.result = "Ok" => ~mutex.poisoned /\ ~mutex'.poisoned
          /\ ret'.result = "Poisoned" =>
                /\ mutex.poisoned
                /\ Len(guards') = Len(guards) + 1]_vars

(* try_lock on a poisoned Mutex handed over a poison-wrapped guard. *)
C8_Witness ==
    /\ ret.op = "try_lock"
    /\ ret.result = "Poisoned"
    /\ ~panicking
    /\ Len(guards) = 1
    /\ guards[1].owner = ret.task

(* C9: eventual wake.  A guard drop wakes every task that is suspended     *)
(* (its poll returned Pending and it was not woken since), and a task that *)
(* was woken is eventually polled again.                                   *)
C9_EventualWake ==
    /\ [][ret'.op = "drop" =>
            \A t \in Tasks :
                (pc[t] = "waiting" /\ ~notified[t]) =>
                    (t \in Range(wakeLog') /\ notified'[t])]_vars
    /\ \A t \in Tasks : (pc[t] = "waiting" /\ notified[t]) ~> ~notified[t]

(* A drop has just woken a suspended task. *)
C9_Witness ==
    /\ ret.op = "drop"
    /\ \E t \in Tasks : pc[t] = "waiting" /\ notified[t] /\ t \in Range(wakeLog)

(* C10: eventual success.  When held guards are dropped, woken tasks are   *)
(* polled again and every task acquires finitely often, a task that awaits *)
(* lock() eventually holds a guard.                                        *)
C10_EventualSuccess ==
    \A t \in Tasks : (pc[t] = "waiting") ~> (pc[t] = "holding")

(* A task that was suspended and woken has been polled and holds the guard. *)
C10_Witness ==
    /\ ret.op = "poll_lock"
    /\ ret.again
    /\ Granted(ret)
    /\ pc[ret.task] = "holding"
    /\ acqs >= 2

(* C11: abandonment.  Dropping a pending MutexAcquire changes nothing of   *)
(* the Mutex and takes or reserves no lock: its waker stays queued.  The   *)
(* next guard drop unlocks, calls wake() for the whole queue, the stale    *)
(* entry and the live waiters alike, and leaves the queue empty; the lock  *)
(* can then be taken again.                                                *)
C11_Abandonment ==
    [][/\ ret'.op = "abandon" =>
            /\ mutex' = mutex
            /\ guards' = guards
            /\ \A u \in Tasks \ {ret'.task} : notified'[u] = notified[u] /\ pc'[u] = pc[u]
            /\ pc'[ret'.task] = "idle"
       /\ ret'.op = "drop" =>
            /\ ~mutex'.locked
            /\ mutex'.waiters = <<>>
            /\ wakeLog' = mutex.waiters
            /\ \A u \in Range(mutex.waiters) : pc[u] = "waiting" => notified'[u]
            /\ try_lock(mutex', panicking').made # <<>>]_vars

(* A drop has woken a queue that held the waker of a task that gave up    *)
(* and the waker of a task that still waits.                               *)
C11_Witness ==
    /\ ret.op = "drop"
    /\ \E t, u \in Range(wakeLog) : pc[t] = "idle" /\ pc[u] = "waiting"
    /\ mutex.waiters = <<>>
    /\ ~mutex.locked

(* C12: the value a guard reads is the value last written through a guard *)
(* of this Mutex, or the value given to new when none was written; this    *)
(* holds at every acquire and whatever failed try_lock came in between.    *)
C12_ReadsLastWritten ==
    /\ deref(mutex) = hist.value
    /\ ret.op = "read" => ret.val = hist.value

(* A guard through which nothing was written reads what an earlier guard   *)
(* wrote.                                                                  *)
C12_Witness ==
    /\ ret.op = "read"
    /\ hist.written
    /\ hist.fresh
    /\ ret.val = MaxValue

(* C13: into_inner and get_mut surface poison.  On a poisoned Mutex each   *)
(* returns a PoisonError around the value (or the reference to it), on an  *)
(* unpoisoned one the plain value; the payload is the current value and    *)
(* neither call changes poisoned or anything else of the Mutex.            *)
C13_PoisonSurfaced ==
    /\ [](LET a == into_inner(mutex)
              b == get_mut(mutex)
          IN  /\ (a.variant = "Poisoned") = mutex.poisoned
              /\ (b.variant = "Poisoned") = mutex.poisoned
              /\ a.variant \in {"Ok", "Poisoned"}
              /\ b.variant \in {"Ok", "Poisoned"}
              /\ a.payload = mutex.data
              /\ b.payload = mutex.data)
    /\ [][ret'.op \in {"into_inner", "get_mut"} =>
            /\ ret'.result = (IF mutex.poisoned THEN "Poisoned" ELSE "Ok")
            /\ ret'.val = mutex.data
            /\ ret'.val = hist.value
            /\ mutex' = mutex]_vars

(* into_inner returned a PoisonError around a value written through a guard. *)
C13_Witness ==
    /\ ret.op = "into_inner"
    /\ ret.result = "Poisoned"
    /\ hist.written
    /\ ret.val = MaxValue

(* C14: round trip.  new(x) is unlocked and unpoisoned with no waiter, and *)
(* into_inner on a Mutex that was never locked (so never poisoned) returns *)
(* Ok(x).                                                                  *)
C14_RoundTrip ==
    /\ \A x \in Values :
          /\ MutexNew(x) = [locked |-> FALSE, poisoned |-> FALSE,
                            waiters |-> <<>>, data |-> x]
          /\ into_inner(MutexNew(x)) = [variant |-> "Ok", payload |-> x]
    /\ ret.op = "new" =>
          /\ ~mutex.locked
          /\ ~mutex.poisoned
          /\ mutex.waiters = <<>>
          /\ mutex.data = hist.value
    /\ (ret.op = "into_inner" /\ ~hist.everLocked) =>
          /\ ret.result = "Ok"
          /\ ret.val = hist.value
          /\ ~hist.written

(* A Mutex that was never locked was consumed and gave back a nonzero value. *)
C14_Witness ==
    /\ ret.op = "into_inner"
    /\ ~hist.everLocked
    /\ ret.result = "Ok"
    /\ ret.val = MaxValue

(* C15: a release hands the lock to nobody.  After a drop the Mutex is     *)
(* unlocked and no task holds it; the first try_lock or poll_lock on the   *)
(* free Mutex takes it, whoever calls and whether or not it waited.  A     *)
(* waiter polled again while the lock is held gets Pending and is          *)
(* registered again at the end of the queue, so the next drop wakes it.    *)
C15_NoHandoff ==
    /\ [](~mutex.locked =>
            \A t \in Tasks :
                /\ poll_lock(mutex, t, panicking).poll = "Ready"
                /\ Len(poll_lock(mutex, t, panicking).made) = 1
                /\ Len(try_lock(mutex, panicking).made) = 1)
    /\ [][/\ ret'.op = "drop" =>
                /\ ~mutex'.locked
                /\ \A u \in Tasks : pc'[u] # "holding"
                /\ \A u \in Range(mutex.waiters) : pc[u] = "waiting" => notified'[u]
          /\ (Acquire(ret') /\ ~mutex.locked) =>
                /\ Granted(ret')
                /\ pc'[ret'.task] = "holding"
                /\ guards'[Len(guards')].owner = ret'.task
          /\ (ret'.op = "poll_lock" /\ ret'.again /\ mutex.locked) =>
                /\ ret'.result = "Pending"
                /\ pc'[ret'.task] = "waiting"
                /\ mutex'.waiters = Append(mutex.waiters, ret'.task)]_vars

(* A task that did not wait took the lock while a woken waiter was still   *)
(* to be polled.                                                           *)
C15_Witness ==
    /\ Granted(ret)
    /\ ~ret.again
    /\ \E t \in Tasks : pc[t] = "waiting" /\ notified[t]

(* C16: locked is true exactly when a guard is live; only a guard drop     *)
(* takes locked from true to false, and every drop does so while removing  *)
(* its one guard.                                                          *)
C16_LockedIffGuard ==
    /\ [](mutex.locked <=> guards # <<>>)
    /\ [][/\ (mutex.locked /\ ~mutex'.locked) => ret'.op = "drop"
          /\ ret'.op = "drop" =>
                /\ mutex.locked
                /\ ~mutex'.locked
                /\ Len(guards') = Len(guards) - 1]_vars

(* A pending lock() future was dropped while a guard is live: still locked. *)
C16_Witness ==
    /\ ret.op = "abandon"
    /\ mutex.locked
    /\ Len(guards) = 1

C18_WaitersImplyLocked == mutex.waiters # <<>> => mutex.locked

(* A drop has emptied a queue of two or more entries and unlocked. *)
C18_Witness ==
    /\ ret.op = "drop"
    /\ Len(wakeLog) >= 2
    /\ mutex.waiters = <<>>
    /\ ~mutex.locked

(* C19: no lost wake-up.  A task whose last poll returned Pending and that *)
(* was not woken since has its waker in the queue, and the Mutex is locked. *)
C19_NoLostWakeup ==
    \A t \in Tasks :
        (pc[t] = "waiting" /\ ~notified[t]) =>
            (mutex.locked /\ t \in Range(mutex.waiters))

(* A woken waiter found the lock taken again and is back in the queue. *)
C19_Witness ==
    /\ ret.op = "poll_lock"
    /\ ret.again
    /\ ret.result = "Pending"
    /\ mutex.waiters = <<ret.task>>
    /\ ~notified[ret.task]

(***************************************************************************)
(* The philosopher example, examples/unsync_philosopher_ok.rs: NumPhils    *)
(* tasks on one current_thread runtime share NumPhils Mutexes.  jitter()   *)
(* yields to the scheduler up to nine times between two steps of a task;   *)
(* it is modelled by letting the other tasks take any number of steps      *)
(* between two steps of one task.  A task suspended in lock() is polled    *)
(* again only after wake() was called on its waker.                        *)
(***************************************************************************)
NumPhils == 5

(* The number of iterations of each task's loop (100 in the example). *)
MaxIters == 1

Phils == 0..(NumPhils - 1)

(* The one-Mutex state, which the example never touches. *)
single == <<mutex, guards, panicking, panicker, pc, notified, wakeLog, ret,
            bornFailing, failedHeld, acqs, hist>>

(* Every task takes resource i, then resource i + 1 around the table. *)
Pair_cyclic(i) == <<i, (i + 1) % NumPhils>>

(* (res0, res1) of task i: resources i and i + 1, but 0 and 4 for task 4. *)
Pair(i) ==
    IF i = NumPhils - 1 THEN <<0, NumPhils - 1>> ELSE <<i, i + 1>>

PhilInit ==
    /\ resources = [r \in Phils |-> MutexNew(r)]
    /\ phils = [p \in Phils |->
                  [pc |-> IF MaxIters = 0 THEN "done" ELSE "lock0",
                   iter |-> 0, notified |-> FALSE, locks |-> <<>>]]
    /\ mutex = MutexNew(0)
    /\ hist = [value |-> 0, written |-> FALSE, fresh |-> TRUE,
               everLocked |-> FALSE]
    /\ guards = <<>>
    /\ panicking = FALSE
    /\ panicker = NoTask
    /\ pc = [t \in Tasks |-> "idle"]
    /\ notified = [t \in Tasks |-> FALSE]
    /\ wakeLog = <<>>
    /\ ret = [op |-> "new", task |-> NoTask, result |-> "none", again |-> FALSE]
    /\ bornFailing = [t \in Tasks |-> FALSE]
    /\ failedHeld = [t \in Tasks |-> FALSE]
    /\ acqs = 0

(* A poll of the lock() future of task p on its k-th resource: Ready takes *)
(* the guard (a poisoned result would make unwrap() panic: the flag is     *)
(* never set here), Pending suspends the task.                             *)
PhilPoll(p, k, got, wait) ==
    LET r == Pair(p)[k]
        a == MutexAcquirePoll(resources[r], p, FALSE)
    IN  /\ a.poll = "Ready" => a.result = "Ok"
        /\ resources' = [resources EXCEPT ![r] = a.mutex]
        /\ phils' = [phils EXCEPT
                       ![p].pc = IF a.poll = "Ready" THEN got ELSE wait,
                       ![p].notified = FALSE,
                       ![p].locks = @ \o a.made]
        /\ UNCHANGED single

(* drop of the k-th guard of task p; every waker drained is notified. *)
PhilDrop(p, k, next, it) ==
    LET r == Pair(p)[k]
        d == GuardDrop(resources[r], phils[p].locks[k], FALSE)
    IN  /\ resources' = [resources EXCEPT ![r] = d.mutex]
        /\ phils' = [q \in Phils |->
                       IF q = p
                       THEN [phils[p] EXCEPT !.pc = next, !.iter = it,
                                             !.locks = RemoveAt(@, k)]
                       ELSE [phils[q] EXCEPT
                               !.notified = @ \/ q \in Range(d.woken)]]
        /\ UNCHANGED single

(* await!(res0.lock()): the first poll. *)
PhilLock0(p) == phils[p].pc = "lock0" /\ PhilPoll(p, 1, "got0", "wait0")

(* The scheduler polls a task woken while it waits for res0. *)
PhilRepoll0(p) ==
    /\ phils[p].pc = "wait0"
    /\ phils[p].notified
    /\ PhilPoll(p, 1, "got0", "wait0")

(* await!(res1.lock()): the first poll. *)
PhilLock1(p) == phils[p].pc = "got0" /\ PhilPoll(p, 2, "got1", "wait1")

(* The scheduler polls a task woken while it waits for res1. *)
PhilRepoll1(p) ==
    /\ phils[p].pc = "wait1"
    /\ phils[p].notified
    /\ PhilPoll(p, 2, "got1", "wait1")

(* drop(lock1) *)
PhilDrop1(p) ==
    /\ phils[p].pc = "got1"
    /\ PhilDrop(p, 2, "rel1", phils[p].iter)

(* drop(lock0), then the next iteration of the loop or "done!". *)
PhilDrop0(p) ==
    /\ phils[p].pc = "rel1"
    /\ PhilDrop(p, 1,
                IF phils[p].iter + 1 >= MaxIters THEN "done" ELSE "lock0",
                phils[p].iter + 1)

PhilStep(p) ==
    \/ PhilLock0(p)
    \/ PhilRepoll0(p)
    \/ PhilLock1(p)
    \/ PhilRepoll1(p)
    \/ PhilDrop1(p)
    \/ PhilDrop0(p)

PhilNext == \E p \in Phils : PhilStep(p)

(* Runtime::run polls a task whenever one can run.  This is all the       *)
(* fairness the example needs; a scheduler that is fair to each task      *)
(* satisfies it too.                                                       *)
PhilSpec ==
    /\ PhilInit
    /\ [][PhilNext]_vars
    /\ WF_vars(PhilNext)

PhilDone == \A p \in Phils : phils[p].pc = "done"

====
